---------------------------- MODULE Spec2Model ----------------------------
(***************************************************************************)
(* The two-factor login flow of the valuation app: the route handlers      *)
(* under app/api/auth (every variant the repository holds), the step-up    *)
(* credential of lib.mfa, the route-gating middleware, one client with its *)
(* cookie jar, a wall clock, and the identity provider the handlers call.  *)
(***************************************************************************)
EXTENDS Integers, Sequences, FiniteSets, TLC

VARIABLES
    now,        \* wall clock, whole seconds (jose's epoch())
    env,        \* process.env: MFA_SIGNING_SECRET and NODE_ENV
    deployed,   \* which variant of each route this build serves
    jar,        \* the client's cookies: name -> cookie
    links,      \* provider: magic-link token -> "unissued" | "pending" | "used"
    challenges, \* provider: OTP challenges issued so far, id -> "pending" | "used"
    lastReq,    \* the request handled last
    lastResp,   \* and its response
    hist,       \* history of the client's flow (observation only)
    flight,     \* requests under way: slot -> the handler's position
    page        \* the page open in the browser: its state, its handlers' runs

vars == <<now, env, deployed, jar, links, challenges, lastReq, lastResp, hist,
          flight, page>>

-----------------------------------------------------------------------------
(* Bounds of the model.                                                    *)

MaxChallenges == 1
MaxLinks == 1
\* Requests one browser has under way at once in the login flow, requests
\* it has under way at once where they overlap, and the sends the provider
\* accepts meanwhile.
MaxInFlight == 1
MaxOverlap == 2
MaxSends == 2
\* Runs of a page's form handlers under way at once.
MaxRuns == 2
\* The longest run of digits typed into the phone field.
MaxPhoneDigits == 11

\* The instants the clock visits in the login flow: the start, the end of
\* the ticket's 15 minutes and the end of the credential's hour.
Instants == {0, 900, 3600}

\* The instants the clock visits before the gate alone.
GateInstants == {0, 899, 900, 3599, 3600, 3601}

-----------------------------------------------------------------------------
(* Paths, as sequences of characters (startsWith works on characters).     *)

P_app            == <<"/","a","p","p">>
P_result         == <<"/","r","e","s","u","l","t">>
P_app_intake     == <<"/","a","p","p","/","i","n","t","a","k","e">>
P_result_1       == <<"/","r","e","s","u","l","t","/","1">>
P_apply          == <<"/","a","p","p","l","y">>
P_intake         == <<"/","i","n","t","a","k","e">>
P_mfa            == <<"/","m","f","a">>
P_request_access == <<"/","r","e","q","u","e","s","t","-","a","c","c","e","s","s">>
P_login          == <<"/","l","o","g","i","n">>

Paths == {P_app, P_result, P_app_intake, P_result_1, P_apply,
          P_intake, P_mfa, P_request_access, P_login}

\* String.prototype.startsWith
startsWith(s, p) == Len(s) >= Len(p) /\ SubSeq(s, 1, Len(p)) = p

PROTECTED_PREFIXES == {P_app, P_result}

\* config.matcher ['/app/:path*', '/result/:path*']: the prefix itself, or the
\* prefix followed by further path segments.
matcher(pathname) ==
    \E p \in PROTECTED_PREFIXES :
        \/ pathname = p
        \/ startsWith(pathname, p \o <<"/">>)

\* The page the App Router serves at a path: app/intake/page.tsx is /intake.
PageAt(pathname) ==
    IF pathname = P_intake THEN "intake"
    ELSE IF pathname = P_mfa THEN "mfa"
    ELSE IF pathname = P_request_access THEN "request-access"
    ELSE "not-found"

-----------------------------------------------------------------------------
(* Cookies.                                                                *)

CookieNames == {"stytch_session", "stytch_session_jwt", "stytch_phone_id", "mfa_token"}

NoValue == [t |-> "none"]
NoCookie == [present |-> FALSE]

\* One entry of a response's Set-Cookie list.
SetCookie(name, value, httpOnly, secure, sameSite, path, domain, maxAge) ==
    [name |-> name, value |-> value, httpOnly |-> httpOnly, secure |-> secure,
     sameSite |-> sameSite, path |-> path, domain |-> domain, maxAge |-> maxAge]

\* The browser applying a response's cookies at time t: max-age <= 0 deletes.
ApplyCookies(j, cookies, t) ==
    [n \in CookieNames |->
        IF \E c \in cookies : c.name = n
        THEN LET c == CHOOSE c \in cookies : c.name = n
             IN  IF c.maxAge <= 0 THEN NoCookie
                 ELSE [present |-> TRUE, value |-> c.value, httpOnly |-> c.httpOnly,
                       secure |-> c.secure, expiresAt |-> t + c.maxAge]
        ELSE j[n]]

\* req.cookies.get(name)?.value: what the browser sends at time t.
CookieValue(j, name, t) ==
    IF j[name].present /\ t < j[name].expiresAt THEN j[name].value ELSE NoValue

SentCookies(j, t) == [n \in CookieNames |-> CookieValue(j, n, t)]

\* JavaScript truthiness of a cookie value or a response field.
Truthy(v) == v.t # "none" /\ v.t # "empty"

-----------------------------------------------------------------------------
(* Responses.                                                              *)

Loc(path, query) == [path |-> path, query |-> query]
NoLoc == Loc(<<>>, "")

\* kind: "json" | "redirect" | "next" | "unhandled" (the handler threw: the
\* runtime answers 500 and drops the handler's response).
\* calls: the identity-provider calls the handler made, in order.
Resp(kind, status, ok, error, location, cookies, calls) ==
    [cookies |-> cookies, kind |-> kind, status |-> status, ok |-> ok,
     error |-> error, location |-> location, calls |-> calls, data |-> NoValue]

Json(status, ok, error, cookies, calls) ==
    Resp("json", status, ok, error, NoLoc, cookies, calls)

\* NextResponse.redirect answers 307 unless told otherwise.
Redirect(location, cookies, calls) ==
    Resp("redirect", 307, FALSE, "", location, cookies, calls)

Forward == Resp("next", 200, FALSE, "", NoLoc, {}, <<>>)

Unhandled(calls) == Resp("unhandled", 500, FALSE, "", NoLoc, {}, calls)

-----------------------------------------------------------------------------
(* lib.mfa: the signed step-up credential.  An HS256 signature is modelled *)
(* by the key it was made with: it verifies under that key and no other.   *)

NoExp == 0 - 1
DefaultSecret == "change-me-please"

\* process.env.MFA_SIGNING_SECRET || 'change-me-please'
SigningSecret(environment) ==
    IF environment.MFA_SIGNING_SECRET # "" THEN environment.MFA_SIGNING_SECRET
    ELSE DefaultSecret

Jwt(email, mfa, iat, exp, key) ==
    [t |-> "jwt", email |-> email, mfa |-> mfa, iat |-> iat, exp |-> exp, key |-> key]

\* (mutant) the expiration time is taken for two hours.
signMfaCookie_2h(email, secret, t) ==
    Jwt(email, "bool_true", t, t + 7200, secret)

\* new SignJWT({email, mfa: true}).setIssuedAt().setExpirationTime('1h').sign(secret)
signMfaCookie(email, secret, t) ==
    Jwt(email, "bool_true", t, t + 3600, secret)

\* jose's jwtVerify: throws on a malformed token, on a signature made with
\* another key, and on an exp claim that is not after the current time.
jwtVerifyThrows(token, secret, t) ==
    \/ token.t # "jwt"
    \/ token.key # secret
    \/ (token.exp # NoExp /\ token.exp <= t)

\* (mutant) the token is decoded, its signature is not verified.
verifyMfaCookie_decodeOnly(token, secret, t) ==
    IF token.t # "jwt" \/ (token.exp # NoExp /\ token.exp <= t) THEN "throw"
    ELSE IF token.mfa = "bool_true" THEN "payload"
    ELSE "null"

\* (mutant) the second-factor claim is not looked at.
verifyMfaCookie_anyClaim(token, secret, t) ==
    IF jwtVerifyThrows(token, secret, t) THEN "throw" ELSE "payload"

\* verifyMfaCookie: "throw", "null", or "payload".
verifyMfaCookie(token, secret, t) ==
    IF jwtVerifyThrows(token, secret, t) THEN "throw"
    ELSE IF token.mfa = "bool_true" THEN "payload"
    ELSE "null"

-----------------------------------------------------------------------------
(* middleware.ts: the route gate.                                          *)

EntryPoint == Loc(P_request_access, "")

\* (mutant) a credential that fails is cleared with the redirect.
middleware_clearsOnFail(pathname, cookies, environment, t) ==
    IF ~ \E p \in PROTECTED_PREFIXES : startsWith(pathname, p) THEN Forward
    ELSE LET token  == cookies["mfa_token"]
             secret == SigningSecret(environment)
         IN  IF ~ Truthy(token) THEN Redirect(EntryPoint, {}, <<>>)
             ELSE IF verifyMfaCookie(token, secret, t) = "payload" THEN Forward
             ELSE Redirect(EntryPoint,
                           {SetCookie("mfa_token", [t |-> "empty"], FALSE, FALSE, "unset", "/", "", 0)},
                           <<>>)

\* (mutant) the redirect says which check failed.
middleware_tellsWhy(pathname, cookies, environment, t) ==
    IF ~ \E p \in PROTECTED_PREFIXES : startsWith(pathname, p) THEN Forward
    ELSE LET token  == cookies["mfa_token"]
             secret == SigningSecret(environment)
             result == verifyMfaCookie(token, secret, t)
         IN  IF ~ Truthy(token) THEN Redirect(EntryPoint, {}, <<>>)
             ELSE IF result = "payload" THEN Forward
             ELSE IF result = "null"
             THEN Redirect(Loc(P_request_access, "err=no-mfa"), {}, <<>>)
             ELSE Redirect(Loc(P_request_access, "err=bad-token"), {}, <<>>)

middleware(pathname, cookies, environment, t) ==
    IF ~ \E p \in PROTECTED_PREFIXES : startsWith(pathname, p) THEN Forward
    ELSE LET token  == cookies["mfa_token"]
             secret == SigningSecret(environment)
         IN  IF ~ Truthy(token) THEN Redirect(EntryPoint, {}, <<>>)
             ELSE IF verifyMfaCookie(token, secret, t) = "payload" THEN Forward
             ELSE Redirect(EntryPoint, {}, <<>>)

\* The runtime in front of a page: the middleware runs on the paths its
\* matcher names, and a forwarded request reaches the page at that path.
GateResponse(pathname, cookies, environment, t) ==
    IF matcher(pathname) THEN middleware(pathname, cookies, environment, t)
    ELSE Forward

-----------------------------------------------------------------------------
(* The identity provider, as the handlers see it: the possible results of  *)
(* each call.  A result is either a response or a thrown error, which may  *)
(* carry an error_message.  Tokens and codes are single-use.               *)

Empty == [t |-> "empty"]
Sess(kind, by) == [t |-> "sess", kind |-> kind, by |-> by]
LinkToken(i) == [t |-> "link", id |-> i]
PhoneId(i) == [t |-> "phone", id |-> i]

LinkIds == 1 .. MaxLinks
ChallengeIds == 1 .. MaxChallenges
CorrectCode == "123456"

\* A thrown error: a provider error carries error_message and message, any
\* other failure carries neither.
ProviderErrors ==
    {[ok |-> FALSE, error_message |-> "provider_error", message |-> "provider_error"],
     [ok |-> FALSE, error_message |-> "", message |-> ""]}

\* The response shape varies by flow: either session field may be missing.
SessionResults(by) ==
    {[ok |-> TRUE, session_token |-> a, session_jwt |-> b] :
        a \in {NoValue, Sess("token", by)}, b \in {NoValue, Sess("jwt", by)}}

magicLinks_authenticate(ls, token) ==
    IF token.t = "link" /\ token.id \in DOMAIN ls /\ ls[token.id] = "pending"
    THEN SessionResults("link") \cup ProviderErrors
    ELSE ProviderErrors

magicLinks_email_loginOrCreate(ls) ==
    IF \E i \in DOMAIN ls : ls[i] = "unissued"
    THEN {[ok |-> TRUE, request_id |-> "request-id"]} \cup ProviderErrors
    ELSE ProviderErrors

\* The provider's state after it accepted a send: the next token is out.
magicLinks_issue(ls) ==
    [ls EXCEPT ![CHOOSE i \in DOMAIN ls : ls[i] = "unissued"
                    /\ \A k \in 1 .. i - 1 : ls[k] # "unissued"] = "pending"]

\* The next challenge the provider issues.
otps_sms_send_next(ch) ==
    CHOOSE i \in DOMAIN ch : ch[i] = "unissued" /\ \A k \in 1 .. i - 1 : ch[k] # "unissued"

otps_sms_send(ch) ==
    IF \E i \in DOMAIN ch : ch[i] = "unissued"
    THEN {[ok |-> TRUE, phone_id |-> PhoneId(otps_sms_send_next(ch))]} \cup ProviderErrors
    ELSE ProviderErrors

otps_authenticate(ch, method_id, code) ==
    IF method_id.t = "phone" /\ method_id.id \in DOMAIN ch
       /\ ch[method_id.id] = "pending" /\ code = CorrectCode
    THEN SessionResults("otp") \cup ProviderErrors
    ELSE ProviderErrors

\* One provider call, as recorded in a response's calls.
Call(op, session_token, minutes) ==
    [session_token |-> session_token, op |-> op, minutes |-> minutes]

\* A value as written into a cookie: undefined is written as the empty string.
CookieVal(v) == IF v.t = "none" THEN Empty ELSE v

\* a || b on two response fields
OrElse(a, b) == IF Truthy(a) THEN a ELSE b

Secure(environment) == environment.NODE_ENV = "production"

\* (mutant) the ticket is emptied but left to live its 15 minutes.
ClearPhoneId_keepsMaxAge ==
    SetCookie("stytch_phone_id", Empty, FALSE, FALSE, "unset", "/", "", 15 * 60)

\* res.cookies.set('stytch_phone_id', '', { path: '/', maxAge: 0 })
ClearPhoneId == SetCookie("stytch_phone_id", Empty, FALSE, FALSE, "unset", "/", "", 0)

-----------------------------------------------------------------------------
(* ConsumeMagicLink: the three callback handlers.  out is the result of    *)
(* magicLinks.authenticate, read only where the handler makes the call.    *)

\* frontend/app/api/auth/callback/route.ts.  Its error redirects name a
\* relative URL, which NextResponse.redirect rejects on some runtimes
\* (relOk = FALSE): the second throw, inside catch, leaves the handler.
callback_route_GET(token, out, relOk) ==
    LET calls == <<Call("magicLinks.authenticate", NoValue, 30)>>
    IN  IF ~ Truthy(token)
        THEN IF relOk THEN Redirect(Loc(P_login, "error=missing_token"), {}, <<>>)
             ELSE Unhandled(<<>>)
        ELSE IF ~ out.ok
        THEN IF relOk THEN Redirect(Loc(P_login, "error=auth_failed"), {}, calls)
             ELSE Unhandled(calls)
        ELSE Redirect(Loc(P_intake, ""),
                      {SetCookie("stytch_session_jwt", CookieVal(out.session_jwt),
                                 TRUE, TRUE, "none", "/", ".nerdlawyer.ai", 30 * 60)},
                      calls)

\* (mutant) a rejected token also ends the session the browser holds.
part_000_GET_dropsSession(token, environment, out) ==
    LET calls == <<Call("magicLinks.authenticate", NoValue, 60)>>
    IN  IF ~ Truthy(token)
        THEN Redirect(Loc(P_request_access, "err=missing-token"), {}, <<>>)
        ELSE IF ~ out.ok
        THEN Redirect(Loc(P_request_access, "err=auth-failed"),
                      {SetCookie("stytch_session", Empty, TRUE, Secure(environment),
                                 "lax", "/", "", 0)},
                      calls)
        ELSE LET sessionToken == OrElse(out.session_token, out.session_jwt)
             IN  IF ~ Truthy(sessionToken)
                 THEN Redirect(Loc(P_request_access, "err=no-session"), {}, calls)
                 ELSE Redirect(Loc(P_mfa, ""),
                               {SetCookie("stytch_session", sessionToken, TRUE,
                                          Secure(environment), "lax", "/", "", 3600)},
                               calls)

\* unnamed/part_000, first handler: takes session_token, else session_jwt.
part_000_GET(token, environment, out) ==
    LET calls == <<Call("magicLinks.authenticate", NoValue, 60)>>
    IN  IF ~ Truthy(token)
        THEN Redirect(Loc(P_request_access, "err=missing-token"), {}, <<>>)
        ELSE IF ~ out.ok
        THEN Redirect(Loc(P_request_access, "err=auth-failed"), {}, calls)
        ELSE LET sessionToken == OrElse(out.session_token, out.session_jwt)
             IN  IF ~ Truthy(sessionToken)
                 THEN Redirect(Loc(P_request_access, "err=no-session"), {}, calls)
                 ELSE Redirect(Loc(P_mfa, ""),
                               {SetCookie("stytch_session", sessionToken, TRUE,
                                          Secure(environment), "lax", "/", "", 3600)},
                               calls)

\* unnamed/part_000, second handler: takes session_jwt alone, secure: false.
part_000_GET_2(token, out) ==
    LET calls == <<Call("magicLinks.authenticate", NoValue, 60)>>
    IN  IF ~ Truthy(token)
        THEN Redirect(Loc(P_request_access, "err=missing-token"), {}, <<>>)
        ELSE IF ~ out.ok
        THEN Redirect(Loc(P_request_access, "err=auth-failed"), {}, calls)
        ELSE Redirect(Loc(P_mfa, ""),
                      {SetCookie("stytch_session", CookieVal(out.session_jwt), TRUE,
                                 FALSE, "lax", "/", "", 3600)},
                      calls)

-----------------------------------------------------------------------------
(* RequestOtp: the two send-sms handlers.  out is the result of the        *)
(* provider's send.  Neither handler catches a provider error.             *)

\* frontend/app/api/auth/send-sms/route.ts: loginOrCreate, no session passed.
send_sms_route_POST(phone, environment, out) ==
    LET calls == <<Call("otps.sms.loginOrCreate", NoValue, 0)>>
    IN  IF phone = "" THEN Json(400, FALSE, "Missing phone", {}, <<>>)
        ELSE IF ~ out.ok THEN Unhandled(calls)
        ELSE Json(200, TRUE, "",
                  {SetCookie("stytch_phone_id", CookieVal(out.phone_id), TRUE,
                             Secure(environment), "lax", "/", "", 15 * 60)},
                  calls)

\* (mutant) a browser that came with a ticket is given that ticket back.
part_002_POST_keepsTicket(phone, cookies, environment, out) ==
    LET sessionToken == cookies["stytch_session"]
        calls == <<Call("otps.sms.send",
                        IF Truthy(sessionToken) THEN sessionToken ELSE NoValue, 0)>>
    IN  IF phone = "" THEN Json(400, FALSE, "Missing phone", {}, <<>>)
        ELSE IF ~ out.ok THEN Unhandled(calls)
        ELSE Json(200, TRUE, "",
                  {SetCookie("stytch_phone_id",
                             OrElse(cookies["stytch_phone_id"], CookieVal(out.phone_id)),
                             TRUE, Secure(environment), "lax", "/", "", 15 * 60)},
                  calls)

\* (mutant) the ticket cookie is left readable by scripts.
part_002_POST_scriptReadable(phone, cookies, environment, out) ==
    LET sessionToken == cookies["stytch_session"]
        calls == <<Call("otps.sms.send",
                        IF Truthy(sessionToken) THEN sessionToken ELSE NoValue, 0)>>
    IN  IF phone = "" THEN Json(400, FALSE, "Missing phone", {}, <<>>)
        ELSE IF ~ out.ok THEN Unhandled(calls)
        ELSE Json(200, TRUE, "",
                  {SetCookie("stytch_phone_id", CookieVal(out.phone_id), FALSE,
                             Secure(environment), "lax", "/", "", 15 * 60)},
                  calls)

\* unnamed/part_002: send, with the primary session when the cookie is there.
part_002_POST(phone, cookies, environment, out) ==
    LET sessionToken == cookies["stytch_session"]
        calls == <<Call("otps.sms.send",
                        IF Truthy(sessionToken) THEN sessionToken ELSE NoValue, 0)>>
    IN  IF phone = "" THEN Json(400, FALSE, "Missing phone", {}, <<>>)
        ELSE IF ~ out.ok THEN Unhandled(calls)
        ELSE Json(200, TRUE, "",
                  {SetCookie("stytch_phone_id", CookieVal(out.phone_id), TRUE,
                             Secure(environment), "lax", "/", "", 15 * 60)},
                  calls)

-----------------------------------------------------------------------------
(* ConsumeOtp: the three verify-sms handlers.  out is the result of        *)
(* otps.authenticate for the ticket in the cookie and the submitted code.  *)

\* frontend/app/api/auth/verify-sms/route.ts: mints the step-up credential;
\* no try/catch around the provider call.
verify_sms_route_POST(code, cookies, environment, t, out) ==
    LET method_id == cookies["stytch_phone_id"]
        calls == <<Call("otps.authenticate", NoValue, 60)>>
    IN  IF code = "" THEN Json(400, FALSE, "Missing code", {}, <<>>)
        ELSE IF ~ Truthy(method_id)
        THEN Json(400, FALSE, "Session expired, resend code.", {}, <<>>)
        ELSE IF ~ out.ok THEN Unhandled(calls)
        ELSE Json(200, TRUE, "",
                  {SetCookie("mfa_token",
                             signMfaCookie("user", SigningSecret(environment), t),
                             TRUE, Secure(environment), "lax", "/", "", 3600),
                   ClearPhoneId},
                  calls)

\* (mutant) the ticket is cleared on a rejected code as well.
part_004_POST_clearsOnReject(code, cookies, environment, out) ==
    LET method_id == cookies["stytch_phone_id"]
        calls == <<Call("otps.authenticate", NoValue, 60)>>
    IN  IF code = "" THEN Json(400, FALSE, "Missing code", {}, <<>>)
        ELSE IF ~ Truthy(method_id)
        THEN Json(400, FALSE, "Session expired, resend code.", {}, <<>>)
        ELSE IF ~ out.ok THEN Json(400, FALSE, "Invalid code", {ClearPhoneId}, calls)
        ELSE Json(200, TRUE, "",
                  {SetCookie("stytch_session", CookieVal(out.session_token), TRUE,
                             Secure(environment), "lax", "/", "", 3600),
                   ClearPhoneId},
                  calls)

\* unnamed/part_004: stores the provider's session_token; no credential.
part_004_POST(code, cookies, environment, out) ==
    LET method_id == cookies["stytch_phone_id"]
        calls == <<Call("otps.authenticate", NoValue, 60)>>
    IN  IF code = "" THEN Json(400, FALSE, "Missing code", {}, <<>>)
        ELSE IF ~ Truthy(method_id)
        THEN Json(400, FALSE, "Session expired, resend code.", {}, <<>>)
        ELSE IF ~ out.ok THEN Json(400, FALSE, "Invalid code", {}, calls)
        ELSE Json(200, TRUE, "",
                  {SetCookie("stytch_session", CookieVal(out.session_token), TRUE,
                             Secure(environment), "lax", "/", "", 3600),
                   ClearPhoneId},
                  calls)

\* (mutant) the session is looked for before the ticket.
jovo_verify_sms_POST_sessionFirst(code, cookies, environment, out) ==
    LET method_id == cookies["stytch_phone_id"]
        sessionToken == cookies["stytch_session"]
        calls == <<Call("otps.authenticate", sessionToken, 60)>>
    IN  IF code = "" THEN Json(400, FALSE, "Missing code", {}, <<>>)
        ELSE IF ~ Truthy(sessionToken)
        THEN Json(400, FALSE, "No active session.", {}, <<>>)
        ELSE IF ~ Truthy(method_id)
        THEN Json(400, FALSE, "Session expired, resend code.", {}, <<>>)
        ELSE IF ~ out.ok
        THEN Json(400, FALSE,
                  IF out.error_message # "" THEN out.error_message ELSE "Invalid code",
                  {}, calls)
        ELSE LET newSessionToken == OrElse(out.session_token, out.session_jwt)
             IN  IF ~ Truthy(newSessionToken)
                 THEN Json(500, FALSE, "Session error", {}, calls)
                 ELSE Json(200, TRUE, "",
                           {SetCookie("stytch_session", newSessionToken, TRUE,
                                      Secure(environment), "lax", "/", "", 3600),
                            ClearPhoneId},
                           calls)

\* frontend_jovo/app/api/auth/verify-sms/route.ts: needs the primary session
\* and passes it on; stores the new session; no credential.
jovo_verify_sms_POST(code, cookies, environment, out) ==
    LET method_id == cookies["stytch_phone_id"]
        sessionToken == cookies["stytch_session"]
        calls == <<Call("otps.authenticate", sessionToken, 60)>>
    IN  IF code = "" THEN Json(400, FALSE, "Missing code", {}, <<>>)
        ELSE IF ~ Truthy(method_id)
        THEN Json(400, FALSE, "Session expired, resend code.", {}, <<>>)
        ELSE IF ~ Truthy(sessionToken)
        THEN Json(400, FALSE, "No active session.", {}, <<>>)
        ELSE IF ~ out.ok
        THEN Json(400, FALSE,
                  IF out.error_message # "" THEN out.error_message ELSE "Invalid code",
                  {}, calls)
        ELSE LET newSessionToken == OrElse(out.session_token, out.session_jwt)
             IN  IF ~ Truthy(newSessionToken)
                 THEN Json(500, FALSE, "Session error", {}, calls)
                 ELSE Json(200, TRUE, "",
                           {SetCookie("stytch_session", newSessionToken, TRUE,
                                      Secure(environment), "lax", "/", "", 3600),
                            ClearPhoneId},
                           calls)

-----------------------------------------------------------------------------
(* RequestMagicLink: unnamed/part_003 (app/api/auth/send-link/route.ts).   *)

Str(chars) == [s |-> chars, t |-> "str"]

\* The characters \s matches: the blank, tab, line feed, carriage return,
\* form feed, and after them, written as the characters themselves, the
\* vertical tab U+000B, the no-break space U+00A0, the ogham space mark
\* U+1680 and the byte order mark U+FEFF.  \s holds U+2000 to U+200A,
\* U+2028, U+2029, U+202F, U+205F and U+3000 as well: a string of this
\* module cannot hold those, so no input here is made of them.
WhiteSpace == {" ", "\t", "\n", "\r", "\f", "", " ", " ", "﻿"}

\* \S
NonSpace(c) == c \notin WhiteSpace

\* (mutant) the pattern without the dot: /\S+@\S+/
RegexEmail_noDot(s) ==
    \E at \in 2 .. Len(s) - 1 : s[at] = "@" /\ NonSpace(s[at - 1]) /\ NonSpace(s[at + 1])

\* /\S+@\S+\.\S+/.test(s): somewhere in s, a non-space character, '@', one
\* or more non-space characters, '.', and a non-space character.
RegexEmail(s) ==
    \E at \in 2 .. Len(s) : \E dot \in at + 2 .. Len(s) - 1 :
        /\ s[at] = "@"
        /\ NonSpace(s[at - 1])
        /\ \A k \in at + 1 .. dot - 1 : NonSpace(s[k])
        /\ s[dot] = "."
        /\ NonSpace(s[dot + 1])

isEmail(v) == v.t = "str" /\ RegexEmail(v.s)

\* The message of the error thrown at line 20: by the destructuring when
\* the body is JSON null, by req.json() when the body is not JSON.
BodyErrors ==
    {"Cannot destructure property 'email' of '(intermediate value)' as it is null.",
     "Unexpected end of JSON input"}

\* A request body that req.json() or the destructuring of its result
\* rejects with an error of that message.
NoBody(message) == [t |-> "no_body", message |-> message]

\* (mutant) the request identifier is also left in a cookie.
part_003_POST_setsCookie(email, logThrows, out) ==
    LET calls == <<Call("magicLinks.email.loginOrCreate", NoValue, 0)>>
    IN  IF ~ isEmail(email) THEN Json(400, FALSE, "Invalid email", {}, <<>>)
        ELSE IF out.ok
        THEN Json(200, TRUE, "",
                  {SetCookie("stytch_session", Sess("token", "link"), TRUE, TRUE,
                             "lax", "/", "", 3600)},
                  calls)
        ELSE Json(500, FALSE, "Failed to send magic link", {}, calls)

\* email: the email member of the body, or NoBody(message): the outer catch
\* answers 500 with the message of what was thrown.
\* logThrows: the best-effort fetch to the access log threw (and is ignored).
\* out is the result of magicLinks.email.loginOrCreate.
part_003_POST(email, logThrows, out) ==
    LET calls == <<Call("fetch /log/access", NoValue, 0),
                   Call("magicLinks.email.loginOrCreate", NoValue, 0)>>
    IN  IF email.t = "no_body" THEN Json(500, FALSE, email.message, {}, <<>>)
        ELSE IF ~ isEmail(email) THEN Json(400, FALSE, "Invalid email", {}, <<>>)
        ELSE IF out.ok
        THEN [Json(200, TRUE, "", {}, calls) EXCEPT
                 !.data = [t |-> "request_id", v |-> out.request_id]]
        ELSE Json(500, FALSE,
                  IF out.error_message # "" THEN out.error_message
                  ELSE IF out.message # "" THEN out.message
                  ELSE "Failed to send magic link",
                  {}, calls)

-----------------------------------------------------------------------------
(* The second-factor page (unnamed/part_006): the normalization of the     *)
(* phone field.                                                            *)

IsDigit(c) == c \in {"0", "1", "2", "3", "4", "5", "6", "7", "8", "9"}
IsDigitOrPlus(c) == IsDigit(c) \/ c = "+"

\* toE164's null.
Null == [t |-> "null"]

\* toE164(input): strip everything except '+' and digits; a string that
\* then starts with '+' is returned as it is when it has 8 characters or
\* more; otherwise 10 digits get "+1" and 11 digits starting with 1 get "+".
toE164(input) ==
    LET s == SelectSeq(input, IsDigitOrPlus)
        digits == SelectSeq(s, IsDigit)
    IN  IF Len(s) > 0 /\ s[1] = "+"
        THEN IF Len(s) >= 8 THEN Str(s) ELSE Null
        ELSE IF Len(digits) = 10 THEN Str(<<"+", "1">> \o digits)
        ELSE IF Len(digits) = 11 /\ digits[1] = "1" THEN Str(<<"+">> \o digits)
        ELSE Null

-----------------------------------------------------------------------------
(* The system: one client, the deployed handlers, the provider, the clock. *)
(* A request is under way from the moment the browser sends it: its        *)
(* handler runs up to an await, goes on when the awaited call settles, and *)
(* the response reaches the browser later still.  The clock moves and      *)
(* other steps happen in between.                                          *)

TokenInputs == {NoValue} \cup {LinkToken(i) : i \in 0 .. MaxLinks}
PhoneInputs == {"", "+14155551234"}
CodeInputs  == {"", "000000", CorrectCode}
EmailInputs == {NoValue, [t |-> "number"],
                Str(<<"a", "@", "b", ".", "c">>),
                Str(<<"a", "@", "b">>),
                Str(<<"a", "@", "\t", "b", ".", "c">>),
                Str(<<"a", "@", "", "b", ".", "c">>),
                Str(<<"a", "@", " ", "b", ".", "c">>)}
               \cup {NoBody(m) : m \in BodyErrors}

\* at: when the browser sent the request; clock: the time the handler read
\* when it made its response; accepted: whether the provider accepted the
\* token or code of the request.
Req(op, path, input, cookies, t, clock, accepted) ==
    [path |-> path, cookies |-> cookies, op |-> op, at |-> t, input |-> input,
     clock |-> clock, accepted |-> accepted]

\* No request: lastReq and lastResp hold the exchange completed last, as long
\* as the browser has sent nothing since.
NoReq == Req("none", <<>>, NoValue, [n \in CookieNames |-> NoValue], 0, 0, FALSE)

Called(resp) == resp.calls # <<>>

\* No result: the handler has not called the provider.
NoResult == [ok |-> FALSE, error_message |-> "", message |-> ""]

Environments ==
    [MFA_SIGNING_SECRET : {"", "s1"}, NODE_ENV : {"production", "development"}]

\* The login flow runs with the signing secret configured.
FlowEnvironments == {e \in Environments : e.MFA_SIGNING_SECRET = "s1"}

\* A request under way.  stage is the handler's position: at an await
\* ("await_body", "await_log", "await_provider", "await_sign",
\* "await_verify"), about to resume after one ("log_settled", "settled"), or
\* done with its response on the way back ("response").  from: 0 for the
\* address bar or a link, k for the fetch of run k of the page's handlers.
NoSlot ==
    [path |-> <<>>, cookies |-> [n \in CookieNames |-> NoValue], op |-> "none",
     out |-> NoResult, at |-> 0, logThrows |-> FALSE, input |-> NoValue,
     clock |-> 0, resp |-> Forward, stage |-> "free", from |-> 0]

\* No answer kept: a run keeps, of the response its fetch resolved with and
\* until r.json() settles, whether the body is JSON, r.ok && data.ok, and
\* data.error.
NoAnswer == [ok |-> FALSE, error |-> "", json |-> FALSE]

\* A run of a form handler: which handler, its position (pc), the value it
\* took from the form (arg: the email, or the normalized phone), the fetches
\* it has made, the magic-link sends its requests led to, and whether a
\* rejection left it uncaught.  A run that has returned holds no value.
NoRun ==
    [handler |-> "none", pc |-> "idle", arg |-> NoValue, fetches |-> <<>>,
     sends |-> 0, uncaught |-> FALSE, answer |-> NoAnswer]

\* The page open in the browser.  form: which page; field: the email or
\* phone field (state email of part_007, phone of part_006); normalized:
\* what toE164 last made of the phone; sent and error: the page's state of
\* that name (error is err on part_006, "" for null); href: the path
\* assigned to window.location.href; runs: the handlers' runs.  The status
\* line (status, msg) is display only and has no field.
NoPage ==
    [error |-> "", form |-> "none", field |-> Str(<<>>), normalized |-> NoValue,
     sent |-> FALSE, href |-> <<>>, runs |-> [k \in 1 .. MaxRuns |-> NoRun]]

Init ==
    /\ now = 0
    /\ env \in FlowEnvironments
    /\ deployed \in [callback : {"route", "part_000", "part_000_2"},
                     send_sms : {"route", "part_002"},
                     verify_sms : {"route", "part_004", "jovo"}]
    /\ jar = [n \in CookieNames |-> NoCookie]
    /\ links = [i \in LinkIds |-> "unissued"]
    /\ challenges = [i \in ChallengeIds |-> "unissued"]
    /\ lastReq = NoReq
    /\ lastResp = Forward
    /\ hist = [primary |-> FALSE, stepUp |-> FALSE,
               accepts |-> [i \in ChallengeIds |-> 0], overlap |-> FALSE]
    /\ flight = [s \in 1 .. MaxInFlight |-> NoSlot]
    /\ page = NoPage

Tick ==
    /\ \E t \in Instants : t > now /\ now' = t
    /\ UNCHANGED <<env, deployed, jar, links, challenges, lastReq, lastResp, hist,
                   flight, page>>

\* The gate's answer, with the page served when it forwards.
Served(pathname, resp) ==
    IF resp.kind = "next"
    THEN [resp EXCEPT !.data = [t |-> "page", name |-> PageAt(pathname)]]
    ELSE resp

\* The phone in the body of a form's request, as the endpoints read it: they
\* tell an empty value from any other.
BodyPhone(e164) == IF e164.s = <<>> THEN "" ELSE "+14155551234"

\* The deployed send-sms handler.
SendSmsResponse(phone, cookies, out) ==
    IF deployed.send_sms = "route" THEN send_sms_route_POST(phone, env, out)
    ELSE part_002_POST(phone, cookies, env, out)

\* The response of the deployed handler (or the gate) to the request in
\* slot r, made at time t, given the provider's result.
FlightResponse(r, out, relOk, t) ==
    IF r.op = "page" THEN Served(r.path, GateResponse(r.path, r.cookies, env, t))
    ELSE IF r.op = "link/request" THEN part_003_POST(r.input, r.logThrows, out)
    ELSE IF r.op = "otp/request"
    THEN SendSmsResponse(IF r.from # 0 THEN BodyPhone(r.input) ELSE r.input,
                         r.cookies, out)
    ELSE IF r.op = "link/consume"
    THEN IF deployed.callback = "route" THEN callback_route_GET(r.input, out, relOk)
         ELSE IF deployed.callback = "part_000" THEN part_000_GET(r.input, env, out)
         ELSE part_000_GET_2(r.input, out)
    ELSE IF deployed.verify_sms = "route"
    THEN verify_sms_route_POST(r.input, r.cookies, env, t, out)
    ELSE IF deployed.verify_sms = "part_004"
    THEN part_004_POST(r.input, r.cookies, env, out)
    ELSE jovo_verify_sms_POST(r.input, r.cookies, env, out)

\* The provider's possible results for the call of the request in slot r.
FlightResults(r) ==
    IF r.op = "link/request" THEN magicLinks_email_loginOrCreate(links)
    ELSE IF r.op = "otp/request" THEN otps_sms_send(challenges)
    ELSE IF r.op = "link/consume" THEN magicLinks_authenticate(links, r.input)
    ELSE otps_authenticate(challenges, r.cookies["stytch_phone_id"], r.input)

\* Whether the runtime takes the relative URL of callback/route.ts's error
\* redirects: it matters to that handler alone.
RelOks(op) ==
    IF op = "link/consume" /\ deployed.callback = "route" THEN BOOLEAN ELSE {TRUE}

InFlight(op) == {s \in DOMAIN flight : flight[s].op = op}

\* The browser sends a request.  A POST handler starts by awaiting the
\* request's body; the callback handlers and the gate run to their first
\* await, or to their response when they return before it.
Send(op, path, input, cookies, from) ==
    \E s \in DOMAIN flight, relOk \in RelOks(op) :
        LET r == [NoSlot EXCEPT !.op = op, !.path = path, !.input = input,
                                !.cookies = cookies, !.at = now, !.clock = now,
                                !.from = from]
            probe == FlightResponse(r, NoResult, relOk, now)
        IN  /\ flight[s].stage = "free"
            /\ \A k \in 1 .. s - 1 : flight[k].stage # "free"
            /\ flight' = [flight EXCEPT ![s] =
                   IF op = "page"
                   THEN IF matcher(path) /\ Truthy(cookies["mfa_token"])
                        THEN [r EXCEPT !.stage = "await_verify"]
                        ELSE [r EXCEPT !.stage = "response", !.resp = probe]
                   ELSE IF op = "link/consume"
                   THEN IF Called(probe) THEN [r EXCEPT !.stage = "await_provider"]
                        ELSE [r EXCEPT !.stage = "response", !.resp = probe]
                   ELSE [r EXCEPT !.stage = "await_body"]]
            /\ hist' = [hist EXCEPT !.overlap =
                            @ \/ (op = "otp/request" /\ InFlight("otp/request") # {})]
            /\ lastReq' = NoReq
            /\ lastResp' = Forward

\* The client is not bound to a browser's rules: it may keep presenting a
\* credential cookie past its max-age.
PresentedToGate(j, t) ==
    {SentCookies(j, t)} \cup
    {[SentCookies(j, t) EXCEPT !["mfa_token"] = j["mfa_token"].value] :
        x \in IF j["mfa_token"].present THEN {1} ELSE {}}

\* The pages the login flow leads to.
FlowPaths == {P_app_intake, P_result_1, P_intake}

\* A request for a page is sent: the gate runs up to its await of
\* verifyMfaCookie, or answers at once.
PageRequest ==
    /\ \E pathname \in FlowPaths : \E cookies \in PresentedToGate(jar, now) :
           Send("page", pathname, NoValue, cookies, 0)
    /\ UNCHANGED <<now, env, deployed, jar, links, challenges, page>>

\* A request to send-link is sent.
RequestMagicLink ==
    /\ \E email \in EmailInputs :
           Send("link/request", <<>>, email, SentCookies(jar, now), 0)
    /\ UNCHANGED <<now, env, deployed, jar, links, challenges, page>>

\* The browser follows a magic link to the deployed callback.
ConsumeMagicLink_route ==
    /\ deployed.callback = "route"
    /\ \E token \in TokenInputs :
           Send("link/consume", <<>>, token, SentCookies(jar, now), 0)
    /\ UNCHANGED <<now, env, deployed, jar, links, challenges, page>>

ConsumeMagicLink_part_000 ==
    /\ deployed.callback = "part_000"
    /\ \E token \in TokenInputs :
           Send("link/consume", <<>>, token, SentCookies(jar, now), 0)
    /\ UNCHANGED <<now, env, deployed, jar, links, challenges, page>>

ConsumeMagicLink_part_000_2 ==
    /\ deployed.callback = "part_000_2"
    /\ \E token \in TokenInputs :
           Send("link/consume", <<>>, token, SentCookies(jar, now), 0)
    /\ UNCHANGED <<now, env, deployed, jar, links, challenges, page>>

\* A request to the deployed send-sms handler is sent.
RequestOtp_route ==
    /\ deployed.send_sms = "route"
    /\ \E phone \in PhoneInputs :
           Send("otp/request", <<>>, phone, SentCookies(jar, now), 0)
    /\ UNCHANGED <<now, env, deployed, jar, links, challenges, page>>

RequestOtp_part_002 ==
    /\ deployed.send_sms = "part_002"
    /\ \E phone \in PhoneInputs :
           Send("otp/request", <<>>, phone, SentCookies(jar, now), 0)
    /\ UNCHANGED <<now, env, deployed, jar, links, challenges, page>>

\* The cookies a ConsumeOtp request may carry: the browser's, or those with
\* a ticket the client was given before put back.
PresentedToVerify(j, ch, t) ==
    {SentCookies(j, t)} \cup
    {[SentCookies(j, t) EXCEPT !["stytch_phone_id"] = PhoneId(i)] :
        i \in {k \in DOMAIN ch : ch[k] # "unissued"}}

\* A request to the deployed verify-sms handler is sent.
ConsumeOtp_route ==
    /\ deployed.verify_sms = "route"
    /\ \E code \in CodeInputs : \E cookies \in PresentedToVerify(jar, challenges, now) :
           Send("otp/consume", <<>>, code, cookies, 0)
    /\ UNCHANGED <<now, env, deployed, jar, links, challenges, page>>

ConsumeOtp_part_004 ==
    /\ deployed.verify_sms = "part_004"
    /\ \E code \in CodeInputs : \E cookies \in PresentedToVerify(jar, challenges, now) :
           Send("otp/consume", <<>>, code, cookies, 0)
    /\ UNCHANGED <<now, env, deployed, jar, links, challenges, page>>

ConsumeOtp_jovo ==
    /\ deployed.verify_sms = "jovo"
    /\ \E code \in CodeInputs : \E cookies \in PresentedToVerify(jar, challenges, now) :
           Send("otp/consume", <<>>, code, cookies, 0)
    /\ UNCHANGED <<now, env, deployed, jar, links, challenges, page>>

\* A POST handler goes on after await req.json(): it answers at once when it
\* returns (or throws) before any call, else runs to its next await.
ResumeAfterBodyAt(s) ==
    LET r == flight[s]
        probe == FlightResponse(r, NoResult, TRUE, now)
    IN  /\ r.stage = "await_body"
        /\ flight' = [flight EXCEPT ![s] =
               IF ~ Called(probe)
               THEN [r EXCEPT !.stage = "response", !.resp = probe, !.clock = now]
               ELSE IF r.op = "link/request" THEN [r EXCEPT !.stage = "await_log"]
               ELSE [r EXCEPT !.stage = "await_provider"]]
        /\ UNCHANGED <<now, env, deployed, jar, links, challenges, lastReq,
                       lastResp, hist, page>>

ResumeAfterBody == \E s \in DOMAIN flight : ResumeAfterBodyAt(s)

\* The access log answers the fetch of part_003, or the fetch fails.
LogSettles ==
    \E s \in DOMAIN flight, threw \in BOOLEAN :
        /\ flight[s].stage = "await_log"
        /\ flight' = [flight EXCEPT ![s].stage = "log_settled", ![s].logThrows = threw]
        /\ UNCHANGED <<now, env, deployed, jar, links, challenges, lastReq,
                       lastResp, hist, page>>

\* part_003 goes on after the log fetch, whatever it came to, and calls the
\* provider.
ResumeAfterLogAt(s) ==
    /\ flight[s].stage = "log_settled"
    /\ flight' = [flight EXCEPT ![s].stage = "await_provider"]
    /\ UNCHANGED <<now, env, deployed, jar, links, challenges, lastReq,
                   lastResp, hist, page>>

ResumeAfterLog == \E s \in DOMAIN flight : ResumeAfterLogAt(s)

\* The provider settles the call of one request: it returns or throws.  A
\* send it accepts puts the next token or challenge out; a token or code it
\* accepts is used up.
ProviderSettles ==
    \E s \in DOMAIN flight :
        LET r == flight[s]
        IN  /\ r.stage = "await_provider"
            /\ \E out \in FlightResults(r) :
                /\ flight' = [flight EXCEPT ![s].stage = "settled", ![s].out = out]
                /\ links' = IF ~ out.ok THEN links
                            ELSE IF r.op = "link/request" THEN magicLinks_issue(links)
                            ELSE IF r.op = "link/consume"
                            THEN [links EXCEPT ![r.input.id] = "used"]
                            ELSE links
                /\ challenges' =
                       IF ~ out.ok THEN challenges
                       ELSE IF r.op = "otp/request"
                       THEN [challenges EXCEPT ![otps_sms_send_next(challenges)] = "pending"]
                       ELSE IF r.op = "otp/consume"
                       THEN [challenges EXCEPT ![r.cookies["stytch_phone_id"].id] = "used"]
                       ELSE challenges
                /\ hist' =
                       IF ~ out.ok THEN hist
                       ELSE IF r.op = "link/consume" THEN [hist EXCEPT !.primary = TRUE]
                       ELSE IF r.op = "otp/consume"
                       THEN [hist EXCEPT !.stepUp = @ \/ hist.primary,
                                         !.accepts[r.cookies["stytch_phone_id"].id] = @ + 1]
                       ELSE hist
            /\ UNCHANGED <<now, env, deployed, jar, lastReq, lastResp, page>>

\* Whether the handler of the request in slot r, the provider having
\* accepted, goes on to an await of signMfaCookie: verify-sms/route.ts does.
Signs(r) == r.op = "otp/consume" /\ deployed.verify_sms = "route" /\ r.out.ok

\* The handler goes on after the provider's call.  It answers, or, minting
\* the credential, calls signMfaCookie, which reads the clock at once (iat
\* and exp are set before sign is awaited), and waits for the signature.
ResumeAfterProviderAt(s) ==
    /\ flight[s].stage = "settled"
    /\ \E relOk \in RelOks(flight[s].op) :
        flight' = [flight EXCEPT ![s] =
            IF Signs(flight[s])
            THEN [flight[s] EXCEPT !.stage = "await_sign", !.clock = now]
            ELSE [flight[s] EXCEPT
                     !.stage = "response",
                     !.resp = FlightResponse(flight[s], flight[s].out, relOk, now),
                     !.clock = now]]
    /\ UNCHANGED <<now, env, deployed, jar, links, challenges, lastReq,
                   lastResp, hist, page>>

ResumeAfterProvider == \E s \in DOMAIN flight : ResumeAfterProviderAt(s)

\* verify-sms/route.ts goes on after await signMfaCookie: it sets the
\* credential signed at the time read before the await, clears the ticket
\* and answers.
ResumeAfterSignAt(s) ==
    /\ flight[s].stage = "await_sign"
    /\ flight' = [flight EXCEPT
                     ![s].stage = "response",
                     ![s].resp = FlightResponse(flight[s], flight[s].out, TRUE,
                                                flight[s].clock)]
    /\ UNCHANGED <<now, env, deployed, jar, links, challenges, lastReq,
                   lastResp, hist, page>>

ResumeAfterSign == \E s \in DOMAIN flight : ResumeAfterSignAt(s)

\* The gate goes on after await verifyMfaCookie: jwtVerify compares the
\* token's exp with the clock as it is now.
ResumeAfterVerifyAt(s) ==
    /\ flight[s].stage = "await_verify"
    /\ flight' = [flight EXCEPT
                     ![s].stage = "response",
                     ![s].resp = FlightResponse(flight[s], NoResult, TRUE, now),
                     ![s].clock = now]
    /\ UNCHANGED <<now, env, deployed, jar, links, challenges, lastReq,
                   lastResp, hist, page>>

ResumeAfterVerify == \E s \in DOMAIN flight : ResumeAfterVerifyAt(s)

\* What the handler of the request in slot s can do by itself.
HandlerStep(s) ==
    \/ ResumeAfterBodyAt(s)
    \/ ResumeAfterLogAt(s)
    \/ ResumeAfterProviderAt(s)
    \/ ResumeAfterSignAt(s)
    \/ ResumeAfterVerifyAt(s)

\* The send-link requests of one response that reached the provider.
SendsOf(resp) ==
    Cardinality({i \in DOMAIN resp.calls :
                    resp.calls[i].op = "magicLinks.email.loginOrCreate"})

\* What a fetch in the browser comes to: a response, or a rejection (the
\* request could not be made or answered).
FetchOutcomes == {"resolves", "rejects"}

\* What a run keeps of the response r its fetch resolved with.
Answer(r) ==
    [ok |-> r.kind = "json" /\ r.status = 200 /\ r.ok, error |-> r.error,
     json |-> r.kind = "json"]
\* The message of the SyntaxError r.json() rejects with on a body that is
\* not JSON: the body of the runtime's answer to an exception that left the
\* handler, which is empty or a text.
NotJsonErrors ==
    {"Unexpected end of JSON input",
     "Unexpected token 'I', \"Internal S\"... is not valid JSON"}

\* The URLs verifySms fetches the access log at, NEXT_PUBLIC_API_BASE not
\* being set: the awaited fetch joins it to the path as it is, the second
\* falls back to the default.
LogUrl_awaited == "undefined/log/access"
LogUrl_second == "https://valuation.nerdlawyer.ai/compute-valuation/log/access"

\* The places free for a new run: no run there, or one that has ended.
FreeRuns(p) == {k \in DOMAIN p.runs : p.runs[k].pc \in {"idle", "done"}}

\* handleSubmit (unnamed/part_007) called with the field holding email, as
\* run k, up to its first await: setError(null) and the fetch of send-link.
handleSubmit(p, k, email) ==
    [p EXCEPT !.field = email, !.error = "",
              !.runs[k] = [NoRun EXCEPT !.handler = "handleSubmit", !.pc = "first",
                                        !.arg = email,
                                        !.fetches = <<"/api/auth/send-link">>]]

\* handleSubmit when its first fetch resolved with r1, up to await
\* res.json().
handleSubmit_afterSendLink(p, k, r1) ==
    [p EXCEPT !.runs[k].pc = "first_json", !.runs[k].answer = Answer(r1),
              !.runs[k].sends = SendsOf(r1)]

\* handleSubmit when res.json() settled (rejecting with syntaxError when the
\* body is not JSON), up to its next await: sent is set, or the catch sets
\* error; then the access log is fetched, outside the try.
handleSubmit_afterJson(p, k, syntaxError) ==
    LET a == p.runs[k].answer
    IN  [p EXCEPT !.sent = IF a.ok THEN TRUE ELSE @,
                  !.error = IF a.ok THEN @
                            ELSE IF ~ a.json THEN syntaxError
                            ELSE IF a.error # "" THEN a.error
                            ELSE "Failed to send magic link",
                  !.runs[k].answer = NoAnswer,
                  !.runs[k].fetches = @ \o <<"${api}/log/access">>,
                  !.runs[k].pc = "await_log"]

\* handleSubmit when the fetch of the access log settled: a rejection leaves
\* the handler, nothing catching it; else send-link is fetched once more.
handleSubmit_afterLog(p, k, log) ==
    IF log = "rejects"
    THEN [p EXCEPT !.runs[k].uncaught = TRUE, !.runs[k].pc = "done",
                   !.runs[k].arg = NoValue]
    ELSE [p EXCEPT !.runs[k].fetches = @ \o <<"/api/auth/send-link">>,
                   !.runs[k].pc = "second"]

\* handleSubmit when its second fetch of send-link resolved with r2, which
\* it does not read: the handler returns.
handleSubmit_afterSecond(p, k, r2) ==
    [p EXCEPT !.runs[k].sends = @ + SendsOf(r2), !.runs[k].pc = "done",
              !.runs[k].arg = NoValue]

\* sendSms (unnamed/part_006) called with the phone field holding input, as
\* run k: setErr(null), then its return when toE164 gives null, else the
\* fetch of send-sms and its await.
sendSms(p, k, input) ==
    LET e164 == toE164(input)
        made == [p EXCEPT !.field = Str(input), !.normalized = e164]
    IN  IF e164 = Null
        THEN [made EXCEPT !.error = "Please enter a valid phone like +14125551234"]
        ELSE [made EXCEPT !.error = "",
                          !.runs[k] = [NoRun EXCEPT !.handler = "sendSms",
                                                    !.pc = "first", !.arg = e164,
                                                    !.fetches = <<"/api/auth/send-sms">>]]

\* sendSms when its fetch resolved with r, up to await r.json().
sendSms_afterFetch(p, k, r) ==
    [p EXCEPT !.runs[k].pc = "first_json", !.runs[k].answer = Answer(r)]

\* sendSms when r.json() settled: sent is set, or the catch sets err; the
\* handler returns.
sendSms_afterJson(p, k, syntaxError) ==
    LET a == p.runs[k].answer
    IN  [p EXCEPT !.sent = IF a.ok THEN TRUE ELSE @,
                  !.error = IF a.ok THEN @
                            ELSE IF ~ a.json THEN syntaxError
                            ELSE IF a.error # "" THEN a.error
                            ELSE "Failed to send code",
                  !.runs[k].answer = NoAnswer,
                  !.runs[k].pc = "done", !.runs[k].arg = NoValue]

\* Where verifySms sends the browser after a successful verification.
MfaPage_verifySms_href == P_intake

\* verifySms (unnamed/part_006) called with the phone field holding input,
\* as run k: setErr(null), then its return when toE164 gives null, else
\* the fetch of verify-sms and its await.
verifySms(p, k, input) ==
    LET e164 == toE164(input)
        made == [p EXCEPT !.field = Str(input), !.normalized = e164]
    IN  IF e164 = Null
        THEN [made EXCEPT !.error = "Invalid phone format"]
        ELSE [made EXCEPT !.error = "",
                          !.runs[k] = [NoRun EXCEPT !.handler = "verifySms",
                                                    !.pc = "first", !.arg = e164,
                                                    !.fetches = <<"/api/auth/verify-sms">>]]

\* verifySms when its fetch resolved with r, up to await r.json().
verifySms_afterFetch(p, k, r) ==
    [p EXCEPT !.runs[k].pc = "first_json", !.runs[k].answer = Answer(r)]

\* verifySms when r.json() settled, up to its next await: the browser is
\* sent to the intake page, or the catch sets err; then the access log is
\* fetched, outside the try.
verifySms_afterJson(p, k, syntaxError) ==
    LET a == p.runs[k].answer
    IN  [p EXCEPT !.href = IF a.ok THEN MfaPage_verifySms_href ELSE @,
                  !.error = IF a.ok THEN @
                            ELSE IF ~ a.json THEN syntaxError
                            ELSE IF a.error # "" THEN a.error
                            ELSE "Invalid code",
                  !.runs[k].answer = NoAnswer,
                  !.runs[k].fetches = @ \o <<LogUrl_awaited>>,
                  !.runs[k].pc = "await_log"]

\* verifySms when the awaited fetch of the access log settled: a rejection
\* leaves the handler, nothing catching it; else the log is fetched once
\* more, not awaited and with a catch, and the handler returns.
verifySms_afterLog(p, k, log) ==
    IF log = "rejects"
    THEN [p EXCEPT !.runs[k].uncaught = TRUE, !.runs[k].pc = "done",
                   !.runs[k].arg = NoValue]
    ELSE [p EXCEPT !.runs[k].fetches = @ \o <<LogUrl_second>>,
                   !.runs[k].pc = "done", !.runs[k].arg = NoValue]

\* Run k, which awaited the fetch that resolved with r, goes on.
FormResumes(p, k, r) ==
    LET run == p.runs[k]
    IN  IF run.handler = "sendSms" THEN sendSms_afterFetch(p, k, r)
        ELSE IF run.handler = "verifySms" THEN verifySms_afterFetch(p, k, r)
        ELSE IF run.pc = "first" THEN handleSubmit_afterSendLink(p, k, r)
        ELSE handleSubmit_afterSecond(p, k, r)

\* A response reaches the browser, which applies its cookies at that time;
\* the run of a form handler awaiting it goes on to its next await.
Arrive ==
    \E s \in DOMAIN flight :
        LET r == flight[s]
        IN  /\ r.stage = "response"
            /\ jar' = ApplyCookies(jar, r.resp.cookies, now)
            /\ lastReq' = Req(r.op, r.path, r.input, r.cookies, r.at, r.clock,
                              Called(r.resp) /\ r.out.ok)
            /\ lastResp' = r.resp
            /\ flight' = [flight EXCEPT ![s] = NoSlot]
            /\ page' = IF r.from # 0 THEN FormResumes(page, r.from, r.resp) ELSE page
            /\ UNCHANGED <<now, env, deployed, links, challenges, hist>>

\* r.json() of run k settles and the handler goes on.
FormJsonSettlesAt(k) ==
    /\ page.runs[k].pc = "first_json"
    /\ \E syntaxError \in IF page.runs[k].answer.json
                          THEN {""} ELSE NotJsonErrors :
        page' = IF page.runs[k].handler = "handleSubmit"
                THEN handleSubmit_afterJson(page, k, syntaxError)
                ELSE IF page.runs[k].handler = "sendSms"
                THEN sendSms_afterJson(page, k, syntaxError)
                ELSE verifySms_afterJson(page, k, syntaxError)
    /\ UNCHANGED <<now, env, deployed, jar, links, challenges, lastReq, lastResp,
                   hist, flight>>

FormJsonSettles == \E k \in DOMAIN page.runs : FormJsonSettlesAt(k)

Next ==
    \/ Tick
    \/ PageRequest
    \/ RequestMagicLink
    \/ ConsumeMagicLink_route
    \/ ConsumeMagicLink_part_000
    \/ ConsumeMagicLink_part_000_2
    \/ RequestOtp_route
    \/ RequestOtp_part_002
    \/ ConsumeOtp_route
    \/ ConsumeOtp_part_004
    \/ ConsumeOtp_jovo
    \/ ResumeAfterVerify
    \/ ResumeAfterBody
    \/ LogSettles
    \/ ResumeAfterLog
    \/ ProviderSettles
    \/ ResumeAfterProvider
    \/ ResumeAfterSign
    \/ Arrive

Spec == Init /\ [][Next]_vars

-----------------------------------------------------------------------------
(* The gate alone, before any credential a client may present: those the   *)
(* server mints, under each secret it may be configured with, and made-up  *)
(* ones (other claims, no expiry, another key, not a token at all).        *)

ProbeTokens ==
    {signMfaCookie("user", SigningSecret(e), t0) : e \in Environments, t0 \in {0, 900}}
    \cup {Jwt("user", m, 0, x, k) :
            m \in {"bool_true", "bool_false", "string_true", "absent"},
            x \in {NoExp, 900},
            k \in {DefaultSecret, "guess"}}
    \cup {[t |-> "garbage"], Empty, NoValue}

GatePaths == {P_app, P_app_intake, P_result_1, P_apply, P_intake, P_mfa,
              P_request_access}

InitGate ==
    /\ now = 0
    /\ env \in Environments
    /\ deployed = [callback |-> "route", send_sms |-> "route", verify_sms |-> "route"]
    /\ jar = [n \in CookieNames |-> NoCookie]
    /\ links = [i \in LinkIds |-> "unissued"]
    /\ challenges = [i \in ChallengeIds |-> "unissued"]
    /\ lastReq = NoReq
    /\ lastResp = Forward
    /\ hist = [primary |-> FALSE, stepUp |-> FALSE,
               accepts |-> [i \in ChallengeIds |-> 0], overlap |-> FALSE]
    /\ flight = [s \in 1 .. MaxInFlight |-> NoSlot]
    /\ page = NoPage

GateTick ==
    /\ \E t \in GateInstants : t > now /\ now' = t
    /\ UNCHANGED <<env, deployed, jar, links, challenges, lastReq, lastResp, hist,
                   flight, page>>

\* A page request carrying any token as its mfa_token cookie is sent.
GateProbe ==
    /\ \E pathname \in GatePaths, token \in ProbeTokens :
           Send("page", pathname, NoValue,
                [n \in CookieNames |-> IF n = "mfa_token" THEN token ELSE NoValue],
                0)
    /\ UNCHANGED <<now, env, deployed, jar, links, challenges, page>>

NextGate == GateTick \/ GateProbe \/ ResumeAfterVerify \/ Arrive

SpecGate == InitGate /\ [][NextGate]_vars

-----------------------------------------------------------------------------
(* The credential's hour: the second factor through the handlers that mint *)
(* the credential, and page requests around its expiry.                    *)

\* The instants the clock visits around the end of the credential's hour.
TtlInstants == {0, 1, 3599, 3600, 3601, 3602}

TtlTick ==
    /\ \E t \in TtlInstants : t > now /\ now' = t
    /\ UNCHANGED <<env, deployed, jar, links, challenges, lastReq, lastResp, hist,
                   flight, page>>

NextTtl ==
    \/ TtlTick
    \/ RequestOtp_route
    \/ ConsumeOtp_route
    \/ PageRequest
    \/ ResumeAfterBody
    \/ ProviderSettles
    \/ ResumeAfterProvider
    \/ ResumeAfterSign
    \/ ResumeAfterVerify
    \/ Arrive

SpecTtl == InitGate /\ [][NextTtl]_vars

-----------------------------------------------------------------------------
(* Rotation of the signing secret: the process is started again with       *)
(* another MFA_SIGNING_SECRET while browsers still hold credentials.  The  *)
(* restart happens between requests: it ends those under way.              *)

RotateSecrets == {"", "s1", "change-me-please"}

Rotate ==
    /\ \A s \in DOMAIN flight : flight[s].stage = "free"
    /\ \E secret \in RotateSecrets :
        /\ secret # env.MFA_SIGNING_SECRET
        /\ env' = [env EXCEPT !.MFA_SIGNING_SECRET = secret]
    /\ UNCHANGED <<now, deployed, jar, links, challenges, lastReq, lastResp, hist,
                   flight, page>>

NextRotate == NextTtl \/ Rotate

SpecRotate == InitGate /\ [][NextRotate]_vars

-----------------------------------------------------------------------------
(* The request-access page (unnamed/part_007) in the browser.  Its form is *)
(* shown while sent is false and its button is never disabled: the form    *)
(* can be submitted again while earlier runs of handleSubmit are under     *)
(* way.  Each run talks to the send-link endpoint and to the access log.   *)

\* What the form's email field may hold when it is submitted.
FormEmails == {Str(<<>>), Str(<<"a", "@", "b", ".", "c">>), Str(<<"a", "@", "b">>)}

\* The form is submitted with the field holding email: a run of
\* handleSubmit starts and goes to its first fetch.
HandleSubmit ==
    /\ page.form = "request-access" /\ ~ page.sent
    /\ \E k \in FreeRuns(page), email \in FormEmails :
        /\ \A j \in FreeRuns(page) : k <= j
        /\ page' = handleSubmit(page, k, email)
        /\ Send("link/request", <<>>, email, SentCookies(jar, now), k)
    /\ UNCHANGED <<now, env, deployed, jar, links, challenges>>

\* "try again" on the page shown once sent is true: setSent(false).
TryAgain ==
    /\ page.form = "request-access" /\ page.sent
    /\ page' = [page EXCEPT !.sent = FALSE]
    /\ UNCHANGED <<now, env, deployed, jar, links, challenges, lastReq, lastResp,
                   hist, flight>>

\* The awaited fetch of the access log of a run settles and the run goes
\* on: handleSubmit to its second fetch of send-link, verifySms to its
\* second fetch of the log and its return, either out by a rejection.
FormLogSettles ==
    \E k \in DOMAIN page.runs, log \in FetchOutcomes :
        /\ page.runs[k].pc = "await_log"
        /\ IF page.runs[k].handler = "handleSubmit"
           THEN /\ page' = handleSubmit_afterLog(page, k, log)
                /\ IF log = "resolves"
                   THEN Send("link/request", <<>>, page.runs[k].arg,
                             SentCookies(jar, now), k)
                   ELSE UNCHANGED <<flight, hist, lastReq, lastResp>>
           ELSE /\ page' = verifySms_afterLog(page, k, log)
                /\ UNCHANGED <<flight, hist, lastReq, lastResp>>
        /\ UNCHANGED <<now, env, deployed, jar, links, challenges>>

InitPages ==
    /\ now = 0
    /\ env = [MFA_SIGNING_SECRET |-> "s1", NODE_ENV |-> "production"]
    /\ deployed = [callback |-> "route", send_sms |-> "route", verify_sms |-> "route"]
    /\ jar = [n \in CookieNames |-> NoCookie]
    /\ links = [i \in 1 .. MaxSends |-> "unissued"]
    /\ challenges = [i \in ChallengeIds |-> "unissued"]
    /\ lastReq = NoReq
    /\ lastResp = Forward
    /\ hist = [primary |-> FALSE, stepUp |-> FALSE,
               accepts |-> [i \in ChallengeIds |-> 0], overlap |-> FALSE]
    /\ flight = [s \in 1 .. MaxOverlap |-> NoSlot]
    /\ page = [NoPage EXCEPT !.form = "request-access"]

NextPages ==
    \/ HandleSubmit
    \/ TryAgain
    \/ FormJsonSettles
    \/ FormLogSettles
    \/ ResumeAfterBody
    \/ LogSettles
    \/ ResumeAfterLog
    \/ ProviderSettles
    \/ ResumeAfterProvider
    \/ Arrive

SpecPages == InitPages /\ [][NextPages]_vars

-----------------------------------------------------------------------------
(* The second-factor page (unnamed/part_006).  While sent is false it      *)
(* shows the phone form, whose submission runs sendSms; once sent is true  *)
(* it shows the code form, whose submission runs verifySms, and nothing    *)
(* sets sent back.  No button is ever disabled.  Both handlers normalize   *)
(* the phone field with toE164.                                            *)

\* What the phone field may hold: a lead, a run of one digit, a tail.  The
\* runs are those around the lengths toE164 tells apart: none, 6 and 7
\* (with '+', under and at 8 characters), and the two longest.
Run(c, n) == [i \in 1 .. n |-> c]
PhoneLeads == {<<>>, <<"+">>, <<"1">>, <<"(">>}
PhoneTails == {<<>>, <<"+">>}
PhoneRuns == {0, 6, 7, MaxPhoneDigits - 1, MaxPhoneDigits}
PhoneFields ==
    {l \o Run("5", n) \o tl : l \in PhoneLeads, n \in PhoneRuns, tl \in PhoneTails}

\* The phone form is submitted with the field holding input: a run of
\* sendSms starts and goes to its fetch, or returns at once.
SendSms ==
    /\ page.form = "mfa" /\ ~ page.sent
    /\ \E k \in FreeRuns(page), input \in PhoneFields :
        /\ \A j \in FreeRuns(page) : k <= j
        /\ page' = sendSms(page, k, input)
        /\ IF toE164(input) = Null
           THEN UNCHANGED <<flight, hist, lastReq, lastResp>>
           ELSE Send("otp/request", <<>>, toE164(input), SentCookies(jar, now), k)
    /\ UNCHANGED <<now, env, deployed, jar, links, challenges>>

\* What the phone field may hold when the code form is submitted: what it
\* held when the code was sent, or nothing.
VerifyPhones(p) == {p.field.s, <<>>}

\* The code form is submitted with the fields holding input and code: a run
\* of verifySms starts and goes to its fetch, or returns at once.
VerifySms ==
    /\ page.form = "mfa" /\ page.sent
    /\ \E k \in FreeRuns(page), input \in VerifyPhones(page), code \in CodeInputs :
        /\ \A j \in FreeRuns(page) : k <= j
        /\ page' = verifySms(page, k, input)
        /\ IF toE164(input) = Null
           THEN UNCHANGED <<flight, hist, lastReq, lastResp>>
           ELSE Send("otp/consume", <<>>, code, SentCookies(jar, now), k)
    /\ UNCHANGED <<now, env, deployed, jar, links, challenges>>

InitMfa ==
    /\ now = 0
    /\ env = [MFA_SIGNING_SECRET |-> "s1", NODE_ENV |-> "production"]
    /\ deployed = [callback |-> "route", send_sms |-> "route", verify_sms |-> "route"]
    /\ jar = [n \in CookieNames |-> NoCookie]
    /\ links = [i \in LinkIds |-> "unissued"]
    /\ challenges = [i \in ChallengeIds |-> "unissued"]
    /\ lastReq = NoReq
    /\ lastResp = Forward
    /\ hist = [primary |-> FALSE, stepUp |-> FALSE,
               accepts |-> [i \in ChallengeIds |-> 0], overlap |-> FALSE]
    /\ flight = [s \in 1 .. MaxOverlap |-> NoSlot]
    /\ page = [NoPage EXCEPT !.form = "mfa"]

NextMfa ==
    \/ SendSms
    \/ VerifySms
    \/ FormJsonSettles
    \/ FormLogSettles
    \/ ResumeAfterBody
    \/ ProviderSettles
    \/ ResumeAfterProvider
    \/ ResumeAfterSign
    \/ Arrive

SpecMfa == InitMfa /\ [][NextMfa]_vars

-----------------------------------------------------------------------------
(* Several users at the second factor: each challenge the provider issues  *)
(* here goes to another user's phone, and the provider knows whose.        *)

\* The user_id the provider's otps.authenticate returns for a ticket.
otps_user(method_id) == "user-" \o ToString(method_id.id)

InitSubjects ==
    /\ now = 0
    /\ env \in Environments
    /\ deployed = [callback |-> "route", send_sms |-> "route", verify_sms |-> "route"]
    /\ jar = [n \in CookieNames |-> NoCookie]
    /\ links = [i \in LinkIds |-> "unissued"]
    /\ challenges = [i \in 1 .. MaxSends |-> "unissued"]
    /\ lastReq = NoReq
    /\ lastResp = Forward
    /\ hist = [primary |-> FALSE, stepUp |-> FALSE,
               accepts |-> [i \in 1 .. MaxSends |-> 0], overlap |-> FALSE]
    /\ flight = [s \in 1 .. MaxInFlight |-> NoSlot]
    /\ page = NoPage

NextSubjects ==
    \/ RequestOtp_route
    \/ ConsumeOtp_route
    \/ PageRequest
    \/ ResumeAfterBody
    \/ ProviderSettles
    \/ ResumeAfterProvider
    \/ ResumeAfterSign
    \/ ResumeAfterVerify
    \/ Arrive

SpecSubjects == InitSubjects /\ [][NextSubjects]_vars

-----------------------------------------------------------------------------
(* Requests overlapping: one browser with several requests under way at    *)
(* once.  The access log and the provider settle a call when they please,  *)
(* or never; responses reach the browser in any order.                     *)

\* The requests the browser makes here: op and input.
FlightRequests ==
    {<<"link/request", Str(<<"a", "@", "b", ".", "c">>)>>,
     <<"link/request", Str(<<"a", "@", "b">>)>>,
     <<"otp/request", "+14155551234">>,
     <<"link/consume", LinkToken(1)>>}

\* The browser sends one of these requests.
FlightSend ==
    /\ \E rq \in FlightRequests :
           Send(rq[1], <<>>, rq[2], SentCookies(jar, now), 0)
    /\ UNCHANGED <<now, env, deployed, jar, links, challenges, page>>

\* One magic link has been mailed; the provider has tokens up to MaxSends
\* and MaxSends challenges to issue.
InitFlight ==
    /\ now = 0
    /\ env = [MFA_SIGNING_SECRET |-> "s1", NODE_ENV |-> "production"]
    /\ deployed \in [callback : {"route", "part_000", "part_000_2"},
                     send_sms : {"route", "part_002"},
                     verify_sms : {"route"}]
    /\ jar = [n \in CookieNames |-> NoCookie]
    /\ links = [i \in 1 .. MaxSends |-> IF i = 1 THEN "pending" ELSE "unissued"]
    /\ challenges = [i \in 1 .. MaxSends |-> "unissued"]
    /\ lastReq = NoReq
    /\ lastResp = Forward
    /\ hist = [primary |-> FALSE, stepUp |-> FALSE,
               accepts |-> [i \in ChallengeIds |-> 0], overlap |-> FALSE]
    /\ flight = [s \in 1 .. MaxOverlap |-> NoSlot]
    /\ page = NoPage

NextFlight ==
    \/ FlightSend
    \/ ResumeAfterBody
    \/ LogSettles
    \/ ResumeAfterLog
    \/ ProviderSettles
    \/ ResumeAfterProvider
    \/ Arrive

SpecFlight == InitFlight /\ [][NextFlight]_vars

-----------------------------------------------------------------------------
(* Properties.                                                             *)

\* A path under a protected prefix: the prefix, or a path below it.
UnderProtectedPrefix(pathname) ==
    \E p \in {P_app, P_result} : pathname = p \/ startsWith(pathname, p \o <<"/">>)

IsOp(op) == lastReq.op = op
PresentedCredential == lastReq.cookies["mfa_token"]
ClearsTicket(resp) == \E c \in resp.cookies : c.name = "stytch_phone_id" /\ c.maxAge <= 0
\* The cookies the endpoints and the gate see are those of the last request.
JarAsRequested == SentCookies(jar, lastReq.at) = lastReq.cookies

\* C1: the gate forwards a request under a protected prefix only when the
\* mfa_token cookie is present, unexpired (at the time the gate verifies it)
\* and carries mfa = true; when the cookie is absent, expired or carries
\* another claim, the answer is a redirect to /request-access and no page is
\* served.
C1_GateRequiresCredential ==
    (IsOp("page") /\ UnderProtectedPrefix(lastReq.path)) =>
        LET tok == PresentedCredential
            present == Truthy(tok)
            expired == present /\ tok.t = "jwt" /\ tok.exp # NoExp /\ tok.exp <= lastReq.clock
            claimTrue == present /\ tok.t = "jwt" /\ tok.mfa = "bool_true"
        IN  /\ lastResp.kind = "next" => (present /\ ~ expired /\ claimTrue)
            /\ (~ present \/ expired \/ ~ claimTrue) =>
                   /\ lastResp.kind = "redirect"
                   /\ lastResp.location = EntryPoint
                   /\ lastResp.data = NoValue

\* An expired credential, rightly signed and claiming mfa, is turned away.
C1_Witness ==
    /\ IsOp("page") /\ UnderProtectedPrefix(lastReq.path)
    /\ PresentedCredential.t = "jwt"
    /\ PresentedCredential.key = SigningSecret(env)
    /\ PresentedCredential.mfa = "bool_true"
    /\ PresentedCredential.exp # NoExp /\ PresentedCredential.exp <= lastReq.clock
    /\ lastResp.kind = "redirect"

\* C2: whenever the gate forwards a protected request, the client has
\* completed ConsumeMagicLink and, after it, ConsumeOtp.
C2_BothFactorsBeforeForward ==
    (IsOp("page") /\ UnderProtectedPrefix(lastReq.path) /\ lastResp.kind = "next")
        => hist.stepUp

\* C3: the intake page is served only to a request carrying a valid step-up
\* credential, and the paths the second-factor page and the magic-link
\* callback send the browser to for it lie under a protected prefix.
C3_IntakeBehindGate ==
    /\ (IsOp("page") /\ lastResp.kind = "next" /\ lastResp.data.name = "intake") =>
           /\ Truthy(PresentedCredential)
           /\ verifyMfaCookie(PresentedCredential, SigningSecret(env), lastReq.clock) = "payload"
    /\ (IsOp("otp/consume") /\ lastResp.ok) => UnderProtectedPrefix(MfaPage_verifySms_href)
    /\ (IsOp("link/consume") /\ lastResp.kind = "redirect"
            /\ PageAt(lastResp.location.path) = "intake") =>
           UnderProtectedPrefix(lastResp.location.path)

\* C4: a ConsumeOtp whose code the provider accepts answers {ok:true} and
\* sets an HTTP-only mfa_token cookie expiring in one hour, and a protected
\* request carrying an issued credential within its hour is forwarded.
C4_AcceptedCodeIssuesCredential ==
    /\ (IsOp("otp/consume") /\ lastReq.accepted) =>
           /\ lastResp.kind = "json" /\ lastResp.ok
           /\ \E c \in lastResp.cookies :
                  /\ c.name = "mfa_token" /\ c.httpOnly /\ c.maxAge = 3600
                  /\ c.value.t = "jwt" /\ c.value.exp = lastReq.clock + 3600
    /\ (IsOp("page") /\ UnderProtectedPrefix(lastReq.path)
            /\ Truthy(PresentedCredential) /\ lastReq.clock < PresentedCredential.exp) =>
           lastResp.kind = "next"

\* C5: a ConsumeOtp response that reports success clears the ticket cookie
\* (stytch_phone_id with max-age <= 0) in that response, and the browser
\* holds no ticket afterwards.
C5_SuccessClearsTicket ==
    (IsOp("otp/consume") /\ lastResp.kind = "json" /\ lastResp.ok) =>
        /\ ClearsTicket(lastResp)
        /\ ~ jar["stytch_phone_id"].present

\* A ConsumeOtp that reported success, from a browser that held a ticket.
C5_Witness ==
    /\ IsOp("otp/consume") /\ lastResp.kind = "json" /\ lastResp.ok
    /\ Truthy(lastReq.cookies["stytch_phone_id"])

\* C6: when the provider rejects the code, ConsumeOtp answers 400 with
\* {ok:false, error:"Invalid code"} and sets or clears no cookie.
C6_RejectedCodeAnswer ==
    (IsOp("otp/consume") /\ Called(lastResp) /\ ~ lastReq.accepted) =>
        /\ lastResp.kind = "json" /\ lastResp.status = 400
        /\ ~ lastResp.ok /\ lastResp.error = "Invalid code"
        /\ lastResp.cookies = {}

\* C7 (as claimed): every ConsumeOtp that submits the ticket to the provider
\* clears the ticket cookie, accepted or rejected, and no ticket is accepted
\* twice.
C7_EveryConsumeClearsTicket ==
    /\ (IsOp("otp/consume") /\ Called(lastResp)) => ClearsTicket(lastResp)
    /\ \A i \in ChallengeIds : hist.accepts[i] <= 1

\* C7 (amended): a ConsumeOtp response that reports success clears the
\* ticket cookie, a ConsumeOtp the provider rejects leaves the ticket cookie
\* as it was, and no ticket is accepted by the provider more than once.
C7_TicketAcceptedOnce ==
    /\ (IsOp("otp/consume") /\ lastResp.kind = "json" /\ lastResp.ok) =>
           ClearsTicket(lastResp)
    /\ (IsOp("otp/consume") /\ Called(lastResp) /\ ~ lastReq.accepted) =>
           \A c \in lastResp.cookies : c.name # "stytch_phone_id"
    /\ \A i \in ChallengeIds : hist.accepts[i] <= 1

\* An accepted ticket put back with the right code, and turned down.
C7_Witness ==
    /\ IsOp("otp/consume") /\ Called(lastResp) /\ ~ lastReq.accepted
    /\ lastReq.input = CorrectCode
    /\ hist.accepts[lastReq.cookies["stytch_phone_id"].id] = 1

\* C8: ConsumeMagicLink without a token redirects to the entry point with
\* reason missing-token, sets no cookie and makes no provider call.
C8_MissingTokenRedirect ==
    (IsOp("link/consume") /\ ~ Truthy(lastReq.input)) =>
        /\ lastResp.kind = "redirect"
        /\ lastResp.location = Loc(P_request_access, "err=missing-token")
        /\ lastResp.cookies = {}
        /\ ~ Called(lastResp)

\* C9: when the provider rejects the magic-link token, ConsumeMagicLink
\* redirects to the entry point with reason auth-failed and sets no cookie:
\* the client's cookies are as before.
C9_RejectedTokenRedirect ==
    (IsOp("link/consume") /\ Called(lastResp) /\ ~ lastReq.accepted) =>
        /\ lastResp.kind = "redirect"
        /\ lastResp.location = Loc(P_request_access, "err=auth-failed")
        /\ lastResp.cookies = {}
        /\ JarAsRequested

\* C10: RequestMagicLink sets, changes and clears no cookie, whatever the
\* input and the outcome: no step of the request, from its sending to the
\* arrival of its response, changes the browser's cookies, and the response
\* carries none.
C10_RequestLinkLeavesCookies ==
    [][\A s \in DOMAIN flight :
          /\ (flight'[s] # flight[s]
                 /\ (flight[s].op = "link/request" \/ flight'[s].op = "link/request")) =>
                 jar' = jar
          /\ (flight'[s].op = "link/request" /\ flight'[s].stage = "response") =>
                 flight'[s].resp.cookies = {}]_vars

\* A magic link sent for a browser that holds a cookie.
C10_Witness ==
    /\ IsOp("link/request") /\ lastResp.ok
    /\ \E n \in CookieNames : jar[n].present

\* C11: a credential minted by ConsumeOtp at time t is forwarded by the gate
\* when it verifies it at any time up to t+3599 and turned away at any time
\* from t+3601 on; at exactly t+3600 the decision is always the same one
\* (turned away).
C11_CredentialHour ==
    (IsOp("page") /\ UnderProtectedPrefix(lastReq.path) /\ Truthy(PresentedCredential)) =>
        LET t0 == PresentedCredential.iat
        IN  /\ lastReq.clock <= t0 + 3599 => lastResp.kind = "next"
            /\ lastReq.clock >= t0 + 3601 => lastResp.kind = "redirect"
            /\ lastReq.clock = t0 + 3600 => lastResp.kind = "redirect"

\* A credential minted after the start, presented at the end of its hour.
C11_Witness ==
    /\ IsOp("page") /\ UnderProtectedPrefix(lastReq.path)
    /\ Truthy(PresentedCredential)
    /\ PresentedCredential.iat = 1
    /\ lastReq.clock = 3601
    /\ lastResp.kind = "redirect"

\* C12: a credential signed with one secret is never accepted under another:
\* once the signing secret is rotated, every protected request carrying a
\* credential signed with the old secret is redirected to the entry point.
C12_RotatedSecretRejected ==
    [][(/\ env' = env
        /\ <<lastReq, lastResp>>' # <<lastReq, lastResp>>
        /\ lastReq'.op = "page" /\ UnderProtectedPrefix(lastReq'.path)
        /\ Truthy(lastReq'.cookies["mfa_token"])
        /\ lastReq'.cookies["mfa_token"].key # SigningSecret(env))
       => (lastResp'.kind = "redirect" /\ lastResp'.location = EntryPoint)]_vars

\* A credential still within its hour, signed with the secret in use before
\* the rotation, is turned away.
C12_Witness ==
    /\ IsOp("page") /\ UnderProtectedPrefix(lastReq.path)
    /\ Truthy(PresentedCredential)
    /\ PresentedCredential.key # SigningSecret(env)
    /\ PresentedCredential.mfa = "bool_true"
    /\ lastReq.clock < PresentedCredential.exp
    /\ lastResp.kind = "redirect"

\* C13: the gate accepts a presented credential if and only if its signature
\* verifies under the current secret, its second-factor claim is true and
\* the current time is before its expiry; every failure gives one and the
\* same answer, a redirect to the entry point that does not say which check
\* failed.
C13_ValidIffAllThree ==
    (IsOp("page") /\ UnderProtectedPrefix(lastReq.path) /\ Truthy(PresentedCredential)) =>
        LET tok == PresentedCredential
            signed == tok.t = "jwt" /\ tok.key = SigningSecret(env)
            claimTrue == tok.t = "jwt" /\ tok.mfa = "bool_true"
            inTime == tok.t = "jwt" /\ (tok.exp = NoExp \/ lastReq.clock < tok.exp)
        IN  /\ lastResp.kind = "next" <=> (signed /\ claimTrue /\ inTime)
            /\ lastResp.kind # "next" =>
                   lastResp = Resp("redirect", 307, FALSE, "", Loc(P_request_access, ""),
                                   {}, <<>>)

\* A rightly signed, unexpired credential without the second-factor claim
\* is turned away.
C13_Witness ==
    /\ IsOp("page") /\ UnderProtectedPrefix(lastReq.path)
    /\ PresentedCredential.t = "jwt"
    /\ PresentedCredential.key = SigningSecret(env)
    /\ PresentedCredential.mfa = "absent"
    /\ PresentedCredential.exp = NoExp
    /\ lastResp.kind = "redirect"

\* C14 (as claimed): every write of a session, ticket or credential cookie by
\* an auth handler, the write that clears the ticket included, sets the
\* HTTP-only attribute.
C14_EveryWriteHttpOnly ==
    \A c \in lastResp.cookies : c.name \in CookieNames => c.httpOnly

\* C14 (amended): every write of a session, ticket or credential cookie that
\* carries a value to keep (max-age above zero) sets the HTTP-only attribute;
\* the write that clears the ticket carries the empty value with max-age 0
\* and does not set it.
C14_ValueWritesHttpOnly ==
    \A c \in lastResp.cookies :
        /\ (c.name \in CookieNames /\ c.maxAge > 0) => c.httpOnly
        /\ c.maxAge <= 0 =>
               (c.name = "stytch_phone_id" /\ c.value = [t |-> "empty"] /\ ~ c.httpOnly)

\* A response that writes a credential or session and clears the ticket.
C14_Witness ==
    /\ IsOp("otp/consume")
    /\ \E c \in lastResp.cookies : c.maxAge > 0 /\ c.httpOnly
    /\ \E c \in lastResp.cookies : c.maxAge <= 0 /\ ~ c.httpOnly

\* C15: every session, ticket or credential cookie a handler writes has the
\* Secure attribute, whatever NODE_ENV is.  No handler reads the scheme of
\* the request, so every response of the model is one a deployment serving
\* over encrypted transport gives.
C15_SecureOnEveryWrite ==
    \A c \in lastResp.cookies : (c.name \in CookieNames /\ c.maxAge > 0) => c.secure

\* C16: the session cookie is always written with path '/' and max-age 60
\* minutes, the lifetime asked of the provider; the ticket with path '/' and
\* max-age 15 minutes; the credential with path '/' and max-age 60 minutes.
C16_AttributesPerKind ==
    /\ \A c \in lastResp.cookies :
           c.maxAge > 0 =>
               /\ c.name \in {"stytch_session", "stytch_session_jwt"} =>
                      (c.path = "/" /\ c.maxAge = 60 * 60)
               /\ c.name = "stytch_phone_id" => (c.path = "/" /\ c.maxAge = 15 * 60)
               /\ c.name = "mfa_token" => (c.path = "/" /\ c.maxAge = 60 * 60)
    /\ (IsOp("link/consume") /\ Called(lastResp)) => lastResp.calls[1].minutes = 60

\* C17: ConsumeOtp with a non-empty code and no ticket cookie (never issued,
\* expired after its 15 minutes, or cleared) answers 400 with the resend-code
\* error, makes no provider call and sets no cookie.
C17_NoTicketResendCode ==
    (IsOp("otp/consume") /\ lastReq.input # ""
        /\ ~ Truthy(lastReq.cookies["stytch_phone_id"])) =>
        /\ lastResp.kind = "json" /\ lastResp.status = 400 /\ ~ lastResp.ok
        /\ lastResp.error = "Session expired, resend code."
        /\ ~ Called(lastResp)
        /\ lastResp.cookies = {}

\* A code submitted when the ticket's 15 minutes are over.
C17_Witness ==
    /\ IsOp("otp/consume") /\ lastReq.input = CorrectCode
    /\ jar["stytch_phone_id"].present
    /\ lastReq.at >= jar["stytch_phone_id"].expiresAt
    /\ ~ Truthy(lastReq.cookies["stytch_phone_id"])
    /\ lastResp.status = 400

\* C18: when the provider authenticates the magic-link token, ConsumeMagicLink
\* either writes the session it found in one of the two response fields to
\* the session cookie and redirects to the second-factor page, or, finding
\* none, sets no cookie and redirects to the entry point with no-session.
C18_SessionFromEitherField ==
    (IsOp("link/consume") /\ lastReq.accepted) =>
        /\ lastResp.kind = "redirect"
        /\ \/ /\ lastResp.location = Loc(P_mfa, "")
              /\ \E c \in lastResp.cookies :
                     /\ c.name = "stytch_session"
                     /\ c.value \in {Sess("token", "link"), Sess("jwt", "link")}
           \/ /\ lastResp.location = Loc(P_request_access, "err=no-session")
              /\ lastResp.cookies = {}

\* The addresses of the requests that are not syntactically valid: missing,
\* not a string, not matching the pattern.
InvalidAddresses ==
    {[t |-> "none"], [t |-> "number"], [s |-> <<"a", "@", "b">>, t |-> "str"],
     [s |-> <<"a", "@", "\t", "b", ".", "c">>, t |-> "str"],
     [s |-> <<"a", "@", "", "b", ".", "c">>, t |-> "str"],
     [s |-> <<"a", "@", " ", "b", ".", "c">>, t |-> "str"]}

\* C19: RequestMagicLink whose body carries a missing, non-string or
\* non-matching email answers 400 {ok:false, error} and calls neither the
\* provider nor the access log; with a valid email and a succeeding provider
\* it answers {ok:true} with the provider's request identifier.
C19_InvalidEmailRejected ==
    /\ (IsOp("link/request") /\ lastReq.input \in InvalidAddresses) =>
           /\ lastResp.kind = "json" /\ lastResp.status = 400
           /\ ~ lastResp.ok /\ lastResp.error # ""
           /\ lastResp.calls = <<>>
    /\ (IsOp("link/request") /\ lastReq.input \notin InvalidAddresses
            /\ lastReq.input.t # "no_body" /\ lastReq.accepted) =>
           /\ lastResp.kind = "json" /\ lastResp.status = 200 /\ lastResp.ok
           /\ lastResp.data = [t |-> "request_id", v |-> "request-id"]

\* An address without a dot after the '@' is refused.
C19_Witness ==
    /\ IsOp("link/request")
    /\ lastReq.input = [s |-> <<"a", "@", "b">>, t |-> "str"]
    /\ lastResp.status = 400

\* C20: whenever a provider call made by an auth endpoint fails, the handler
\* answers with a redirect that carries a reason (link/consume) or with a
\* JSON body {ok:false, error} and an error status (link/request 500,
\* otp/request 400, otp/consume 400): no provider error leaves a handler
\* unhandled.
C20_ProviderErrorsCaught ==
    (Called(lastResp) /\ ~ lastReq.accepted) =>
        /\ lastResp.kind # "unhandled"
        /\ IsOp("link/consume") =>
               (lastResp.kind = "redirect" /\ lastResp.location.query # "")
        /\ IsOp("link/request") =>
               (lastResp.kind = "json" /\ lastResp.status = 500
                   /\ ~ lastResp.ok /\ lastResp.error # "")
        /\ (IsOp("otp/request") \/ IsOp("otp/consume")) =>
               (lastResp.kind = "json" /\ lastResp.status = 400
                   /\ ~ lastResp.ok /\ lastResp.error # "")

\* C21: whenever a RequestOtp request carries the session cookie, that token
\* is forwarded to the provider's send call; a send without a session
\* happens only when the request carries no session cookie.
C21_SendForwardsSession ==
    (IsOp("otp/request") /\ Called(lastResp)) =>
        lastResp.calls[1].session_token =
            (IF Truthy(lastReq.cookies["stytch_session"])
             THEN lastReq.cookies["stytch_session"] ELSE [t |-> "none"])

\* C22: whenever a ConsumeOtp request carries the session cookie, that token
\* is passed to the provider's authenticate call with the ticket and code.
C22_VerifyPassesSession ==
    (IsOp("otp/consume") /\ Called(lastResp)
        /\ Truthy(lastReq.cookies["stytch_session"])) =>
        lastResp.calls[1].session_token = lastReq.cookies["stytch_session"]

\* C23: the gate is a pure gate: on every page request, forwarded or
\* redirected, the response sets no cookie and no provider call is made; a
\* forwarded request reaches the page at the path it asked for; and the
\* decision is the one the gate gives for the path, the mfa_token cookie, the
\* secret and the time alone, every other cookie left out.
C23_GateIsPure ==
    IsOp("page") =>
        /\ lastResp.cookies = {}
        /\ lastResp.calls = <<>>
        /\ lastResp.kind \in {"next", "redirect"}
        /\ lastResp.kind = "next" =>
               (lastResp.location = Loc(<<>>, "")
                   /\ lastResp.data = [t |-> "page", name |-> PageAt(lastReq.path)])
        /\ lastResp.kind =
               GateResponse(lastReq.path,
                            [n \in CookieNames |->
                                IF n = "mfa_token" THEN PresentedCredential
                                ELSE [t |-> "none"]],
                            env, lastReq.clock).kind

\* A protected request turned away while the browser holds other cookies.
C23_Witness ==
    /\ IsOp("page") /\ UnderProtectedPrefix(lastReq.path)
    /\ Truthy(lastReq.cookies["stytch_session"])
    /\ lastResp.kind = "redirect"

\* C24: an auth handler sets a cookie only in the response to a request
\* whose provider call returned successfully; the credential is set only in
\* answer to a ConsumeOtp whose ticket and code the provider accepted; and a
\* request whose provider call fails gets a response without any cookie.
C24_CookiesOnlyAfterSuccess ==
    /\ lastResp.cookies # {} => (Called(lastResp) /\ lastReq.accepted)
    /\ (\E c \in lastResp.cookies : c.name = "mfa_token") =>
           /\ IsOp("otp/consume") /\ lastReq.accepted
           /\ lastReq.cookies["stytch_phone_id"].t = "phone"
           /\ lastReq.input = CorrectCode
    /\ (Called(lastResp) /\ ~ lastReq.accepted) => lastResp.cookies = {}

\* A magic-link token the provider rejects, from a browser holding a cookie.
C24_Witness ==
    /\ IsOp("link/consume") /\ Called(lastResp) /\ ~ lastReq.accepted
    /\ \E n \in CookieNames : Truthy(lastReq.cookies[n])
    /\ JarAsRequested

\* The challenges the provider has issued, and the ticket of the latest.
IssuedChallenges == {i \in DOMAIN challenges : challenges[i] # "unissued"}
MostRecentTicket ==
    PhoneId(CHOOSE i \in IssuedChallenges : \A k \in IssuedChallenges : k <= i)
HeldTicket == jar["stytch_phone_id"]

\* C25 as stated: once the RequestOtp calls of a browser are answered,
\* calls under way at once and answered in either order included, the
\* ticket cookie holds the ticket of the challenge issued last.
C25_MostRecentTicket ==
    (InFlight("otp/request") = {} /\ IssuedChallenges # {}) =>
        (HeldTicket.present /\ HeldTicket.value = MostRecentTicket)

\* C25, corrected: the ticket cookie holds one ticket, of a challenge the
\* provider issued; once the RequestOtp calls are answered it is there, and
\* when no call was made while another was under way it is the ticket of
\* the challenge issued last.
C25_MostRecentTicketInSequence ==
    /\ (HeldTicket.present /\ Truthy(HeldTicket.value)) =>
           (HeldTicket.value.t = "phone" /\ HeldTicket.value.id \in IssuedChallenges)
    /\ (InFlight("otp/request") = {} /\ IssuedChallenges # {}) =>
           /\ HeldTicket.present /\ HeldTicket.value.t = "phone"
           /\ ~ hist.overlap => HeldTicket.value = MostRecentTicket

\* Two codes sent one after the other, both answered.
C25_Witness ==
    /\ InFlight("otp/request") = {} /\ ~ hist.overlap
    /\ Cardinality(IssuedChallenges) = 2
    /\ HeldTicket.present /\ HeldTicket.value = PhoneId(2)

\* The ConsumeMagicLink requests answered and on their way to the browser.
AnsweredConsumes ==
    {s \in DOMAIN flight : flight[s].op = "link/consume" /\ flight[s].stage = "response"}

\* C26: of the ConsumeMagicLink requests carrying one token, whether one
\* follows the other or both are under way at once, at most one is answered
\* with a cookie; a request whose token the provider rejected is answered
\* with a redirect to the entry point with reason auth-failed and no cookie.
C26_SingleUseUnderInterleaving ==
    /\ Cardinality({s \in AnsweredConsumes : flight[s].resp.cookies # {}}) <= 1
    /\ \A s \in AnsweredConsumes :
        /\ flight[s].resp.cookies # {} => (flight[s].out.ok /\ links[flight[s].input.id] = "used")
        /\ ~ flight[s].out.ok =>
            /\ flight[s].resp.kind = "redirect"
            /\ flight[s].resp.location = Loc(P_request_access, "err=auth-failed")
            /\ flight[s].resp.cookies = {}

\* C27: a request to an auth endpoint is answered even when the provider
\* never answers: a handler waiting for the provider can go on by itself,
\* its call being bounded by a timeout, and a call that failed or timed out
\* is answered as a provider error, a redirect or {ok: false, error}.
C27_ProviderCallBounded ==
    \A s \in DOMAIN flight :
        /\ flight[s].stage = "await_provider" => ENABLED HandlerStep(s)
        /\ (flight[s].stage = "response" /\ Called(flight[s].resp) /\ ~ flight[s].out.ok) =>
               \/ flight[s].resp.kind = "redirect"
               \/ (flight[s].resp.kind = "json" /\ ~ flight[s].resp.ok
                      /\ flight[s].resp.error # "")

\* C28: the user-facing flow comes out the same whether a call to the
\* access log succeeds or fails: on the request-access page a failed log
\* call is swallowed, nothing leaving handleSubmit uncaught, and the
\* requests the submission makes, the magic-link sends among them, are those
\* it makes when the log call succeeds.
C28_LogOutcomeIrrelevant ==
    \A k \in DOMAIN page.runs :
        /\ (page.runs[k].handler = "handleSubmit" /\ page.runs[k].pc = "done") =>
               /\ ~ page.runs[k].uncaught
               /\ page.runs[k].fetches = <<"/api/auth/send-link", "${api}/log/access",
                                           "/api/auth/send-link">>
        /\ page.runs[k].handler = "verifySms" => ~ page.runs[k].uncaught

\* C29: recording in the access log is fire-and-forget: RequestMagicLink
\* never waits on the log, so while the log call is still open the handler
\* can go on by itself to the provider's send and to its response.
C29_LogNeverAwaited ==
    \A s \in DOMAIN flight :
        (flight[s].op = "link/request" /\ flight[s].stage = "await_log") =>
            ENABLED HandlerStep(s)

\* C30: nothing is sent again without the user: one submission of the
\* request-access form causes at most one magic-link send by the provider,
\* and one RequestOtp request at most one SMS send.
C30_OneSendPerSubmission ==
    /\ \A k \in DOMAIN page.runs :
           page.runs[k].handler = "handleSubmit" => page.runs[k].sends <= 1
    /\ IsOp("otp/request") => Len(lastResp.calls) <= 1

\* What the claim has toE164 return: by the digits left after stripping.
StatedE164(input) ==
    LET digits == SelectSeq(input, IsDigit)
    IN  IF Len(digits) = 10 THEN Str(<<"+", "1">> \o digits)
        ELSE IF Len(digits) = 11 /\ digits[1] = "1" THEN Str(<<"+">> \o digits)
        ELSE Null

\* C31: toE164 returns "+1" and the digits when 10 digits are left after
\* stripping, "+" and the digits when 11 are left and the first is 1, and
\* null for every other input; the second-factor page requests a code only
\* with a result that is not null.
C31_PhoneNormalization ==
    (page.form = "mfa" /\ page.normalized # NoValue) =>
        /\ page.normalized = StatedE164(page.field.s)
        /\ \A s \in DOMAIN flight :
               (flight[s].from # 0 /\ flight[s].op = "otp/request") =>
                   /\ flight[s].input # Null
                   /\ flight[s].input = page.runs[flight[s].from].arg

\* The credential a response mints, if any.
MintedBy(resp) == {c.value : c \in {d \in resp.cookies : d.name = "mfa_token"}}

\* C32: the subject of a credential minted by ConsumeOtp is the user the
\* provider authenticated in that step; a user who completes the second
\* factor from a browser holding the credential of another user is given a
\* credential with another subject.
C32_SubjectIsAuthenticatedUser ==
    (IsOp("otp/consume") /\ lastReq.accepted) =>
        \A tok \in MintedBy(lastResp) :
            /\ tok.email = otps_user(lastReq.cookies["stytch_phone_id"])
            /\ lastReq.cookies["mfa_token"].t = "jwt" =>
                   tok.email # lastReq.cookies["mfa_token"].email

\* The signing keys a client that was never issued a credential can use:
\* the built-in default, which ships with the source, and its own guesses.
ClientKnownKeys == {DefaultSecret, "guess"}

\* C33: every credential the gate accepts was minted by the server: under
\* every configuration of the signing secret, MFA_SIGNING_SECRET unset
\* included, the gate forwards no request whose mfa_token a client could
\* have made itself, signed with a key it knows.
C33_NoForgedCredential ==
    (IsOp("page") /\ UnderProtectedPrefix(lastReq.path) /\ lastResp.kind = "next") =>
        /\ PresentedCredential.t = "jwt"
        /\ PresentedCredential.key \notin ClientKnownKeys

=============================================================================
